---- MODULE Spec2Model ----
(***************************************************************************)
(* Model of the session-management core of mautrix.crypto:                 *)
(*   DeviceListMachine (device_lists.py): _fetch_keys, on_devices_changed,  *)
(*     _validate_device;                                                   *)
(*   OlmMachine (machine.py): handle_otk_count, handle_device_lists,        *)
(*     handle_member_event, share_keys.                                    *)
(* A handler is an asyncio coroutine: it runs without interruption up to   *)
(* the next await of a store / client call, so each action below is one    *)
(* such uninterrupted stretch, and tasks[t].pc is the coroutine's position. *)
(***************************************************************************)
EXTENDS Integers, FiniteSets, Sequences, TLC

\* ------------------------------------------------------------------ bounds
Users == {"u1", "u2"}
\* the home-servers (origins) of the users
Servers == {"s1", "s2"}
ServerOf(user_id) == IF user_id = "u1" THEN "s1" ELSE "s2"
Devices == {"d1", "d2"}
SigningKeys == {"k1", "k2"}
IdentityKeys == {"c1"}
Names == {"n1"}
Rooms == {"r1", "r2"}
\* the coroutines the dispatcher may have in flight at once
Tasks == {1, 2}

\* an absent / empty value of a key or a display name (falsy in Python)
Absent == ""

\* ------------------------------------------------------- Membership Oracle
\* state_store.is_encrypted(room_id)
IsEncrypted(room_id) == room_id = "r1"

\* state_store.find_shared_rooms(user_id)
FindSharedRooms(user_id) == IF user_id = "u1" THEN {"r1"} ELSE {"r1", "r2"}

\* ------------------------------------------------------------- data types
\* mautrix.types.DeviceKeys as returned by query_keys: the embedded ids, the
\* two keys, the self-reported display name and the signature.
DeviceKeys ==
    [user_id : Users, device_id : Devices, ed25519 : SigningKeys \cup {Absent},
     curve25519 : IdentityKeys \cup {Absent}, name : Names \cup {Absent},
     signature : {"valid", "invalid"}]

\* display names are reported for these devices only
NamedDevices == {"d1"}

\* the bundles a key query may report under device id device_id
ReportedKeys(device_id) ==
    {k \in DeviceKeys : k.name # Absent => device_id \in NamedDevices}

\* the bundles that pass every check under (user_id, device_id)
GoodKeys(user_id, device_id) ==
    {k \in ReportedKeys(device_id) :
        /\ k.user_id = user_id /\ k.device_id = device_id
        /\ k.ed25519 # Absent /\ k.curve25519 # Absent /\ k.signature = "valid"}

NoKeys ==
    [user_id |-> Absent, device_id |-> Absent, ed25519 |-> Absent,
     curve25519 |-> Absent, name |-> Absent, signature |-> "invalid"]

\* DeviceValidationError messages of _validate_device
ErrUserID == "mismatching user ID in parameter and keys object"
ErrDeviceID == "mismatching device ID in parameter and keys object"
ErrSigningKey == "didn't find ed25519 signing key"
ErrIdentityKey == "didn't find curve25519 identity key"
ErrPinned == "received update for device with different signing key"
ErrSignature == "invalid signature on device keys"
ValidationErrors ==
    {ErrUserID, ErrDeviceID, ErrSigningKey, ErrIdentityKey, ErrPinned, ErrSignature}

\* DeviceIdentity(...)
DeviceIdentity(user_id, device_id, identity_key, signing_key, trust, name, deleted) ==
    [user_id |-> user_id, device_id |-> device_id, identity_key |-> identity_key,
     signing_key |-> signing_key, trust |-> trust, name |-> name, deleted |-> deleted]

NoDevice == DeviceIdentity(Absent, Absent, Absent, Absent, "unset", Absent, FALSE)

\* verify_signature_json(device_keys.serialize(), user_id, device_id, signing_key):
\* the signature covers the serialized object and is looked up under
\* (user_id, "ed25519:" + device_id) and verified with signing_key.
VerifySignatureJson(device_keys, user_id, device_id, signing_key) ==
    /\ device_keys.signature = "valid"
    /\ device_keys.user_id = user_id
    /\ device_keys.device_id = device_id
    /\ device_keys.ed25519 = signing_key

Raise(reason) == [ok |-> FALSE, reason |-> reason, device |-> NoDevice]

\* a plausible slip: the signing-key pin is not checked
ValidateDeviceNoPin(user_id, device_id, device_keys, existing) ==
    IF user_id # device_keys.user_id THEN Raise(ErrUserID)
    ELSE IF device_id # device_keys.device_id THEN Raise(ErrDeviceID)
    ELSE IF device_keys.ed25519 = Absent THEN Raise(ErrSigningKey)
    ELSE IF device_keys.curve25519 = Absent THEN Raise(ErrIdentityKey)
    ELSE IF ~VerifySignatureJson(device_keys, user_id, device_id, device_keys.ed25519)
         THEN Raise(ErrSignature)
    ELSE [ok |-> TRUE, reason |-> Absent,
          device |-> DeviceIdentity(user_id, device_id, device_keys.curve25519,
                                    device_keys.ed25519, "unset",
                                    IF device_keys.name # Absent THEN device_keys.name
                                    ELSE device_id, FALSE)]

\* a plausible slip: the trust state and the deleted flag of the stored record
\* are carried over into the new one
ValidateDeviceKeepsTrust(user_id, device_id, device_keys, existing) ==
    LET r == ValidateDeviceNoPin(user_id, device_id, device_keys, existing)
    IN  IF ~r.ok \/ existing = <<>> THEN r
        ELSE IF existing[1].signing_key # device_keys.ed25519 THEN Raise(ErrPinned)
        ELSE [r EXCEPT !.device.trust = existing[1].trust,
                       !.device.deleted = existing[1].deleted]

\* a plausible slip: the device id is compared before the user id
ValidateDeviceDeviceFirst(user_id, device_id, device_keys, existing) ==
    IF device_id # device_keys.device_id THEN Raise(ErrDeviceID)
    ELSE IF user_id # device_keys.user_id THEN Raise(ErrUserID)
    ELSE IF device_keys.ed25519 = Absent THEN Raise(ErrSigningKey)
    ELSE IF device_keys.curve25519 = Absent THEN Raise(ErrIdentityKey)
    ELSE IF existing # <<>> /\ existing[1].signing_key # device_keys.ed25519
         THEN Raise(ErrPinned)
    ELSE ValidateDeviceNoPin(user_id, device_id, device_keys, existing)

\* DeviceListMachine._validate_device; existing is <<>> (None) or <<identity>>
ValidateDevice(user_id, device_id, device_keys, existing) ==
    IF user_id # device_keys.user_id THEN Raise(ErrUserID)
    ELSE IF device_id # device_keys.device_id THEN Raise(ErrDeviceID)
    ELSE LET signing_key == device_keys.ed25519
             identity_key == device_keys.curve25519
         IN  IF signing_key = Absent THEN Raise(ErrSigningKey)
             ELSE IF identity_key = Absent THEN Raise(ErrIdentityKey)
             ELSE IF existing # <<>> /\ existing[1].signing_key # signing_key
                  THEN Raise(ErrPinned)
             ELSE IF ~VerifySignatureJson(device_keys, user_id, device_id, signing_key)
                  THEN Raise(ErrSignature)
             ELSE LET name == IF device_keys.name # Absent THEN device_keys.name
                              ELSE device_id
                  IN  [ok |-> TRUE, reason |-> Absent,
                       device |-> DeviceIdentity(user_id, device_id, identity_key,
                                                 signing_key, "unset", name, FALSE)]

\* TrustState values a stored device can be given
TrustStates == {"unset", "verified", "blacklisted"}

\* EventType and EncryptionAlgorithm values a decrypted to-device event may carry
RoomKey == "m.room_key"
EventTypes == {RoomKey, "m.dummy"}
MegolmV1 == "m.megolm.v1.aes-sha2"
Algorithms == {MegolmV1, "m.olm.v1.curve25519-aes-sha2"}
SessionIds == {"g1"}
SessionKeys == {"x1", "x2"}

\* DecryptedOlmEvent: type, sender_key, keys.ed25519 and the content's
\* algorithm, room_id, session_id, session_key
DecryptedOlmEvents ==
    [type : EventTypes, sender_key : IdentityKeys,
     ed25519 : SigningKeys \cup {Absent}, algorithm : Algorithms,
     room_id : Rooms, session_id : SessionIds, session_key : SessionKeys]

NoEvent ==
    [type |-> Absent, sender_key |-> Absent, ed25519 |-> Absent,
     algorithm |-> Absent, room_id |-> Absent, session_id |-> Absent,
     session_key |-> Absent]

\* ------------------------------------------------------------------ state
VARIABLES
    devstore,       \* crypto_store: user -> (device id -> DeviceIdentity)
    tracked,        \* crypto_store: the users a device list is kept for
    sessions,       \* crypto_store: rooms that hold an outbound group session
    account,        \* self.account: [shared, max_one_time_keys]
    stored_account, \* crypto_store: the account last given to put_account
    uploads,        \* client: successful upload_keys calls carrying device keys
    tasks,          \* the coroutines: position and local variables
    inbound,        \* crypto_store: inbound group sessions, by (sender key, room, id)
    ever_stored     \* history: signing keys ever stored, per observed (user, device)

vars == <<devstore, tracked, sessions, account, stored_account, uploads, tasks,
          inbound, ever_stored>>

EmptyMap == <<>>

\* pc: idle | query | loop | devices | changed | upload | done | failed
\* op, arg_users, include_untracked: the handler and its arguments, live up
\*   to line 22
\* users, user_id, existing_devices, new_devices, changed, data: the locals
\* queried, notified: whether query_keys was called, the users given to
\*   on_devices_changed
\* current_otk_count, device_keys, one_time_keys: share_keys' argument and
\*   locals (whether device keys are uploaded, how many one-time keys)
\* room_id, prev, cur, had_session, removed: the member event handled, whether
\*   the room held a session, whether remove_outbound_group_session was called
\* error, bad_device, bad_keys: the exception that ended the coroutine, and
\*   for a DeviceValidationError the device and the part of its bundle that
\*   checks 1-5 read
IdleTask ==
    [pc |-> "idle", op |-> "none", arg_users |-> {}, include_untracked |-> FALSE,
     users |-> {}, user_id |-> Absent,
     existing_devices |-> EmptyMap, new_devices |-> EmptyMap, changed |-> FALSE,
     data |-> EmptyMap, notified |-> {}, queried |-> FALSE,
     error |-> Absent, bad_device |-> Absent, bad_keys |-> NoKeys,
     current_otk_count |-> 0, device_keys |-> FALSE, one_time_keys |-> 0,
     room_id |-> Absent, prev |-> Absent, cur |-> Absent, had_session |-> FALSE,
     removed |-> FALSE, failures |-> {}, evt |-> NoEvent, created |-> FALSE]

\* ----------------------------------------------------------- Key Store
\* crypto_store.filter_tracked_users(users)
FilterTrackedUsers(users) == users \cap tracked

\* crypto_store.get_devices(user_id)
GetDevices(user_id) == devstore[user_id]

\* crypto_store.put_devices(user_id, devices): replaces the user's map
PutDevices(store, user_id, devices) == [store EXCEPT ![user_id] = devices]

\* crypto_store.remove_outbound_group_session(room_id)
RemoveOutboundGroupSession(held, room_id) == held \ {room_id}

\* ------------------------------------------------------------------- Init
\* OlmAccount.max_one_time_keys values the model is run with
OtkMaxima == {4, 5}

\* OlmMachine.__init__ and load() on an empty store, with max_one_time_keys = m
\* and the history kept for the (user, device) pairs in observed
Start(m, observed) ==
    /\ devstore = [u \in Users |-> EmptyMap]
    /\ tracked = {}
    /\ sessions = {}
    /\ account = [shared |-> FALSE, max_one_time_keys |-> m]
    /\ stored_account = [present |-> FALSE, shared |-> FALSE]
    /\ uploads = 0
    /\ tasks = [t \in Tasks |-> IdleTask]
    /\ inbound = EmptyMap
    /\ ever_stored = [p \in observed |-> {}]

Init == Start(4, {})

\* ------------------------------------------------------------ task helpers
Idle(t) == tasks[t].pc = "idle"

SetTask(t, rec) == tasks' = [tasks EXCEPT ![t] = rec]

Option(map, key) == IF key \in DOMAIN map THEN <<map[key]>> ELSE <<>>

Size(map) == Cardinality(DOMAIN map)

\* ------------------------------------------------ DeviceListMachine._fetch_keys
\* a plausible slip: the tracked-user filter is skipped
FetchUsersUnfiltered(users, include_untracked) == users

\* lines 18-19: the users that are queried
FetchUsers(users, include_untracked) ==
    IF ~include_untracked THEN FilterTrackedUsers(users) ELSE users

\* lines 18-22: entry, up to the await of query_keys
FetchStart(t, op, users, include_untracked) ==
    /\ Idle(t)
    /\ LET filtered == FetchUsers(users, include_untracked)
           started == [IdleTask EXCEPT !.op = op, !.arg_users = users,
                                       !.include_untracked = include_untracked]
       IN  IF Cardinality(filtered) = 0
           THEN SetTask(t, [started EXCEPT !.pc = "done", !.data = EmptyMap])
           ELSE SetTask(t, [started EXCEPT !.pc = "query", !.users = filtered])
    /\ UNCHANGED <<devstore, tracked, sessions, account, stored_account, uploads,
                   ever_stored, inbound>>

\* _fetch_keys called directly (e.g. with include_untracked=True)
FetchKeys(t, users, include_untracked) == FetchStart(t, "fetch", users, include_untracked)

\* line 25: client.query_keys(users); the response is drawn as it is iterated
FetchQuery(t) ==
    /\ tasks[t].pc = "query"
    /\ SetTask(t, [tasks[t] EXCEPT !.pc = "loop", !.queried = TRUE, !.op = "none",
                                   !.arg_users = {}, !.include_untracked = FALSE])
    /\ UNCHANGED <<devstore, tracked, sessions, account, stored_account, uploads,
                   ever_stored, inbound>>

\* a plausible slip: a reported origin failure is raised instead of logged
FetchQueryFailuresAborts(t, failures) ==
    /\ tasks[t].pc = "query"
    /\ IF failures # {}
       THEN SetTask(t, [IdleTask EXCEPT !.pc = "failed", !.queried = TRUE,
                                        !.error = "QueryError"])
       ELSE SetTask(t, [tasks[t] EXCEPT !.pc = "loop", !.queried = TRUE,
                                        !.op = "none", !.arg_users = {},
                                        !.include_untracked = FALSE])
    /\ UNCHANGED <<devstore, tracked, sessions, account, stored_account, uploads,
                   ever_stored, inbound>>

\* lines 25-28: client.query_keys(users) whose response reports the origins in
\* failures as unreachable; each is logged and the call goes on
FetchQueryFailures(t, failures) ==
    /\ tasks[t].pc = "query"
    /\ SetTask(t, [tasks[t] EXCEPT !.pc = "loop", !.queried = TRUE, !.op = "none",
                                   !.arg_users = {}, !.include_untracked = FALSE,
                                   !.failures = failures])
    /\ UNCHANGED <<devstore, tracked, sessions, account, stored_account, uploads,
                   ever_stored, inbound>>

\* the exception leaves the coroutine: its locals are gone
Failed(t, error, user_id, device_id, keys) ==
    [IdleTask EXCEPT !.pc = "failed", !.queried = tasks[t].queried,
                     !.error = error, !.user_id = user_id, !.bad_device = device_id,
                     !.bad_keys = keys]

\* lines 31-39: the next user of keys.device_keys; users.remove raises KeyError
\* for a user that was not queried
FetchNextUser(t, user_id) ==
    /\ tasks[t].pc = "loop"
    /\ user_id \notin DOMAIN tasks[t].data
    /\ IF user_id \notin tasks[t].users
       THEN SetTask(t, Failed(t, "KeyError", user_id, Absent, NoKeys))
       ELSE SetTask(t, [tasks[t] EXCEPT !.pc = "devices",
                                        !.users = @ \ {user_id},
                                        !.user_id = user_id,
                                        !.new_devices = EmptyMap,
                                        !.existing_devices = GetDevices(user_id),
                                        !.changed = FALSE])
    /\ UNCHANGED <<devstore, tracked, sessions, account, stored_account, uploads,
                   ever_stored, inbound>>

\* lines 40-49: one reported device; a DeviceValidationError is not caught
FetchValidateDevice(t, device_id, keys) ==
    /\ tasks[t].pc = "devices"
    /\ device_id \notin DOMAIN tasks[t].new_devices
    /\ LET existing == Option(tasks[t].existing_devices, device_id)
           changed == IF existing = <<>> THEN TRUE ELSE tasks[t].changed
           r == ValidateDevice(tasks[t].user_id, device_id, keys, existing)
       IN  IF r.ok
           THEN SetTask(t, [tasks[t] EXCEPT !.changed = changed,
                                            !.new_devices = @ @@ (device_id :> r.device)])
           ELSE SetTask(t, Failed(t, r.reason, tasks[t].user_id, device_id,
                                  [keys EXCEPT !.name = Absent, !.signature = "invalid"]))
    /\ UNCHANGED <<devstore, tracked, sessions, account, stored_account, uploads,
                   ever_stored, inbound>>

\* a plausible slip: only the new-device flag is looked at
DevicesChangedFlagOnly(changed, new_devices, existing_devices) == changed

\* line 55
DevicesChanged(changed, new_devices, existing_devices) ==
    changed \/ Size(new_devices) # Size(existing_devices)

\* lines 50-55: the user's devices are exhausted
FetchPutDevices(t) ==
    /\ tasks[t].pc = "devices"
    /\ LET user_id == tasks[t].user_id
           new_devices == tasks[t].new_devices
       IN  /\ devstore' = PutDevices(devstore, user_id, new_devices)
           \* the Key Store tracks the users it keeps a device list for
           /\ tracked' = tracked \cup {user_id}
           /\ ever_stored' =
                 [p \in DOMAIN ever_stored |->
                    IF p[1] = user_id /\ p[2] \in DOMAIN new_devices
                    THEN ever_stored[p] \cup {new_devices[p[2]].signing_key}
                    ELSE ever_stored[p]]
           /\ SetTask(t, [tasks[t] EXCEPT
                 !.data = (user_id :> new_devices) @@ @,
                 !.pc = IF DevicesChanged(tasks[t].changed, new_devices,
                                          tasks[t].existing_devices)
                        THEN "changed" ELSE "loop"])
    /\ UNCHANGED <<sessions, account, stored_account, uploads, inbound>>

RECURSIVE RemoveAll(_, _)
RemoveAll(held, rooms) ==
    IF rooms = {} THEN held
    ELSE LET room_id == CHOOSE r \in rooms : TRUE
         IN  RemoveAll(RemoveOutboundGroupSession(held, room_id), rooms \ {room_id})

\* a plausible slip: the loop over the shared rooms stops after one room
OnDevicesChangedOneRoom(t) ==
    /\ tasks[t].pc = "changed"
    /\ sessions' = RemoveOutboundGroupSession(
                      sessions, CHOOSE r \in FindSharedRooms(tasks[t].user_id) : TRUE)
    /\ SetTask(t, [tasks[t] EXCEPT
          !.pc = "loop",
          !.notified = @ \cup {tasks[t].user_id},
          !.had_session = @ \/ FindSharedRooms(tasks[t].user_id) \cap sessions # {}])
    /\ UNCHANGED <<devstore, tracked, account, stored_account, uploads, ever_stored,
                   inbound>>

\* lines 56, 63-67: on_devices_changed(user_id)
OnDevicesChanged(t) ==
    /\ tasks[t].pc = "changed"
    /\ sessions' = RemoveAll(sessions, FindSharedRooms(tasks[t].user_id))
    /\ SetTask(t, [tasks[t] EXCEPT
          !.pc = "loop",
          !.notified = @ \cup {tasks[t].user_id},
          !.had_session = @ \/ FindSharedRooms(tasks[t].user_id) \cap sessions # {}])
    /\ UNCHANGED <<devstore, tracked, account, stored_account, uploads, ever_stored,
                   inbound>>
\* a plausible slip: a queried user the response does not list is taken to
\* have no devices any more
FetchReturnDeletesMissing(t) ==
    /\ tasks[t].pc = "loop"
    /\ devstore' = [u \in Users |->
                       IF u \in tasks[t].users THEN EmptyMap ELSE devstore[u]]
    /\ SetTask(t, [tasks[t] EXCEPT !.pc = "done"])
    /\ UNCHANGED <<tracked, sessions, account, stored_account, uploads,
                   ever_stored, inbound>>

\* lines 58-61: keys.device_keys is exhausted
FetchReturn(t) ==
    /\ tasks[t].pc = "loop"
    /\ SetTask(t, [tasks[t] EXCEPT !.pc = "done"])
    /\ UNCHANGED <<devstore, tracked, sessions, account, stored_account, uploads,
                   ever_stored, inbound>>

\* the caller receives the result or the exception; the coroutine is gone
TaskEnd(t) ==
    /\ tasks[t].pc \in {"done", "failed"}
    /\ SetTask(t, IdleTask)
    /\ UNCHANGED <<devstore, tracked, sessions, account, stored_account, uploads,
                   ever_stored, inbound>>

\* a plausible slip: the changed users are fetched whether tracked or not
HandleDeviceListsUntracked(t, changed) ==
    /\ Idle(t)
    /\ IF Cardinality(changed) > 0
       THEN FetchStart(t, "device_lists", changed, TRUE)
       ELSE /\ SetTask(t, [IdleTask EXCEPT !.pc = "done", !.op = "device_lists"])
            /\ UNCHANGED <<devstore, tracked, sessions, account, stored_account,
                           uploads, ever_stored, inbound>>

\* OlmMachine.handle_device_lists
HandleDeviceLists(t, changed) ==
    /\ Idle(t)
    /\ IF Cardinality(changed) > 0
       THEN FetchStart(t, "device_lists", changed, FALSE)
       ELSE /\ SetTask(t, [IdleTask EXCEPT !.pc = "done", !.op = "device_lists"])
            /\ UNCHANGED <<devstore, tracked, sessions, account, stored_account,
                           uploads, ever_stored, inbound>>

\* an outbound group session is created by the megolm encryption path
CreateOutboundSession(room_id) ==
    /\ \A t \in Tasks : Idle(t)
    /\ room_id \notin sessions
    /\ sessions' = sessions \cup {room_id}
    /\ UNCHANGED <<devstore, tracked, account, stored_account, uploads, tasks,
                   ever_stored, inbound>>

\* _validate_device (a static method) called on its own with a bundle and the
\* record stored for the device, if any; the arguments and the outcome are kept
\* in the task
ValidateDeviceCall(t, user_id, device_id, device_keys, existing) ==
    /\ Idle(t)
    /\ LET r == ValidateDevice(user_id, device_id, device_keys, existing)
           called == [IdleTask EXCEPT
                        !.op = "validate", !.user_id = user_id,
                        !.bad_device = device_id, !.bad_keys = device_keys,
                        !.existing_devices =
                            IF existing = <<>> THEN EmptyMap
                            ELSE (device_id :> existing[1])]
       IN  IF r.ok
           THEN SetTask(t, [called EXCEPT !.pc = "done",
                                          !.new_devices = (device_id :> r.device)])
           ELSE SetTask(t, [called EXCEPT !.pc = "failed", !.error = r.reason])
    /\ UNCHANGED <<devstore, tracked, sessions, account, stored_account, uploads,
                   ever_stored, inbound>>

\* ------------------------------------------------------ OlmMachine.share_keys
\* largest one-time-key count a sync response reports
MaxOtkCount == 5

\* a plausible slip: the device keys are included whatever the flag says
GetDeviceKeysAlways(acc) == TRUE

\* account.get_device_keys(...) if not account.shared else None
GetDeviceKeys(acc) == ~acc.shared

\* account.get_one_time_keys(mxid, device_id, current_otk_count): the number of
\* keys that brings the published pool up to max_one_time_keys
GetOneTimeKeys(acc, current_otk_count) ==
    IF acc.max_one_time_keys > current_otk_count
    THEN acc.max_one_time_keys - current_otk_count ELSE 0

\* a plausible slip: the early return of lines 99-101 is missing
ShareKeysStartAlwaysUploads(t, op, current_otk_count) ==
    /\ Idle(t)
    /\ SetTask(t, [IdleTask EXCEPT
          !.pc = "upload", !.op = op,
          !.current_otk_count = current_otk_count,
          !.device_keys = GetDeviceKeys(account),
          !.one_time_keys = GetOneTimeKeys(account, current_otk_count)])
    /\ UNCHANGED <<devstore, tracked, sessions, account, stored_account, uploads,
                   ever_stored, inbound>>

\* lines 95-105: up to the await of upload_keys
ShareKeysStart(t, op, current_otk_count) ==
    /\ Idle(t)
    /\ LET device_keys == GetDeviceKeys(account)
           one_time_keys == GetOneTimeKeys(account, current_otk_count)
           started == [IdleTask EXCEPT !.op = op,
                                       !.current_otk_count = current_otk_count,
                                       !.device_keys = device_keys,
                                       !.one_time_keys = one_time_keys]
       IN  IF ~device_keys /\ one_time_keys = 0
           THEN SetTask(t, [started EXCEPT !.pc = "done"])
           ELSE SetTask(t, [started EXCEPT !.pc = "upload"])
    /\ UNCHANGED <<devstore, tracked, sessions, account, stored_account, uploads,
                   ever_stored, inbound>>

\* share_keys called directly
ShareKeys(t, current_otk_count) == ShareKeysStart(t, "share_keys", current_otk_count)

\* a plausible slip: the flag is set and saved whether or not the upload worked
UploadKeysFailedMarksShared(t) ==
    /\ tasks[t].pc = "upload"
    /\ account' = [account EXCEPT !.shared = TRUE]
    /\ stored_account' = [present |-> TRUE, shared |-> TRUE]
    /\ SetTask(t, [tasks[t] EXCEPT !.pc = "failed", !.error = "UploadError"])
    /\ UNCHANGED <<devstore, tracked, sessions, uploads, ever_stored, inbound>>

\* line 105: upload_keys raises; lines 106-107 are not reached
UploadKeysFailed(t) ==
    /\ tasks[t].pc = "upload"
    /\ SetTask(t, [tasks[t] EXCEPT !.pc = "failed", !.error = "UploadError"])
    /\ UNCHANGED <<devstore, tracked, sessions, account, stored_account, uploads,
                   ever_stored, inbound>>

\* lines 105-108: upload_keys returns; shared = True; put_account
UploadKeysDone(t) ==
    /\ tasks[t].pc = "upload"
    /\ uploads' = IF tasks[t].device_keys THEN uploads + 1 ELSE uploads
    /\ account' = [account EXCEPT !.shared = TRUE]
    /\ stored_account' = [present |-> TRUE, shared |-> TRUE]
    /\ SetTask(t, [tasks[t] EXCEPT !.pc = "done"])
    /\ UNCHANGED <<devstore, tracked, sessions, ever_stored, inbound>>

\* line 56: otk_count.signed_curve25519 < self.account.max_one_time_keys // 2
OtkCountLow(signed_curve25519, max_one_time_keys) ==
    signed_curve25519 < max_one_time_keys \div 2

\* OlmMachine.handle_otk_count
HandleOtkCount(t, signed_curve25519) ==
    /\ Idle(t)
    /\ IF OtkCountLow(signed_curve25519, account.max_one_time_keys)
       THEN ShareKeysStart(t, "otk_count", signed_curve25519)
       ELSE /\ SetTask(t, [IdleTask EXCEPT !.pc = "done", !.op = "otk_count",
                                           !.current_otk_count = signed_curve25519])
            /\ UNCHANGED <<devstore, tracked, sessions, account, stored_account,
                           uploads, ever_stored, inbound>>

\* ------------------------------------------- OlmMachine.handle_member_event
Memberships == {"join", "leave", "invite", "ban", "knock"}
Unknown == "unknown"

\* ignored_changes, and dict.get on it (None is rendered Absent)
IgnoredChanges ==
    [prev \in {"invite", "ban", "leave"} |->
        IF prev = "invite" THEN "join" ELSE IF prev = "ban" THEN "leave" ELSE "ban"]

IgnoredChangesGet(prev) ==
    IF prev \in DOMAIN IgnoredChanges THEN IgnoredChanges[prev] ELSE Absent

\* a plausible slip: the ignore table is read in the other direction
MemberEventInvalidatesReversed(encrypted, prev_membership, cur_membership) ==
    LET prev == IF prev_membership # Absent THEN prev_membership ELSE Unknown
    IN  /\ encrypted
        /\ ~(prev = cur_membership \/ IgnoredChangesGet(cur_membership) = prev)

\* lines 64-74: whether the handler reaches remove_outbound_group_session
MemberEventInvalidates(encrypted, prev_membership, cur_membership) ==
    LET prev == IF prev_membership # Absent THEN prev_membership ELSE Unknown
        cur == cur_membership
    IN  /\ encrypted
        /\ ~(prev = cur \/ IgnoredChangesGet(prev) = cur)

HandleMemberEvent(t, room_id, prev_membership, membership) ==
    /\ Idle(t)
    /\ LET invalidate == MemberEventInvalidates(IsEncrypted(room_id), prev_membership,
                                                membership)
       IN  /\ sessions' = IF invalidate
                          THEN RemoveOutboundGroupSession(sessions, room_id)
                          ELSE sessions
           /\ SetTask(t, [IdleTask EXCEPT !.pc = "done", !.op = "member",
                                          !.room_id = room_id,
                                          !.prev = prev_membership,
                                          !.cur = membership,
                                          !.had_session = room_id \in sessions,
                                          !.removed = invalidate])
    /\ UNCHANGED <<devstore, tracked, account, stored_account, uploads, ever_stored,
                   inbound>>

\* ------------------------------------------------- device trust (external)
\* the application marks a stored device as verified or blacklisted, or flags
\* it deleted, in the Key Store; no handler is in flight
SetDeviceState(user_id, device_id, trust, deleted) ==
    /\ \A t \in Tasks : Idle(t)
    /\ device_id \in DOMAIN devstore[user_id]
    /\ devstore' = [devstore EXCEPT ![user_id][device_id].trust = trust,
                                    ![user_id][device_id].deleted = deleted]
    /\ UNCHANGED <<tracked, sessions, account, stored_account, uploads, tasks,
                   ever_stored, inbound>>

\* --------------------------------------- OlmMachine.handle_to_device_event
\* _create_group_session(sender_key, signing_key, room_id, session_id,
\* session_key): the inbound session is stored under (sender_key, room_id,
\* session_id), with the sender's fingerprint
CreateGroupSession(store, sender_key, signing_key, room_id, session_id, session_key) ==
    (<<sender_key, room_id, session_id>>
        :> [signing_key |-> signing_key, session_key |-> session_key])
    @@ store

\* line 79-82: entry, up to the await of _decrypt_olm_event
HandleToDeviceEvent(t) ==
    /\ Idle(t)
    /\ SetTask(t, [IdleTask EXCEPT !.pc = "decrypt", !.op = "to_device"])
    /\ UNCHANGED <<devstore, tracked, sessions, account, stored_account, uploads,
                   ever_stored, inbound>>

\* line 82: _decrypt_olm_event raises; nothing in the handler catches it
DecryptOlmEventFailed(t) ==
    /\ tasks[t].pc = "decrypt"
    /\ SetTask(t, [tasks[t] EXCEPT !.pc = "failed", !.error = "DecryptionError"])
    /\ UNCHANGED <<devstore, tracked, sessions, account, stored_account, uploads,
                   ever_stored, inbound>>

\* a plausible slip: the fingerprint of the envelope is not looked at
ReceiveRoomKeyAcceptsAlgorithmOnly(evt) == evt.algorithm = MegolmV1

\* line 89, negated: the event is not ignored
ReceiveRoomKeyAccepts(evt) ==
    ~(evt.algorithm # MegolmV1 \/ evt.ed25519 = Absent)

\* lines 82-90: _decrypt_olm_event returns decrypted_evt; a room-key event that
\* _receive_room_key accepts goes on to the await of _create_group_session
DecryptOlmEventDone(t, decrypted_evt) ==
    /\ tasks[t].pc = "decrypt"
    /\ IF decrypted_evt.type = RoomKey /\ ReceiveRoomKeyAccepts(decrypted_evt)
       THEN SetTask(t, [tasks[t] EXCEPT !.pc = "create", !.evt = decrypted_evt])
       ELSE SetTask(t, [tasks[t] EXCEPT !.pc = "done", !.evt = decrypted_evt])
    /\ UNCHANGED <<devstore, tracked, sessions, account, stored_account, uploads,
                   ever_stored, inbound>>

\* lines 91-92: _create_group_session
ReceiveRoomKeyCreate(t) ==
    /\ tasks[t].pc = "create"
    /\ LET evt == tasks[t].evt
       IN  inbound' = CreateGroupSession(inbound, evt.sender_key, evt.ed25519,
                                         evt.room_id, evt.session_id, evt.session_key)
    /\ SetTask(t, [tasks[t] EXCEPT !.pc = "done", !.created = TRUE])
    /\ UNCHANGED <<devstore, tracked, sessions, account, stored_account, uploads,
                   ever_stored>>

\* ---------------------------------------------------------- specifications
\* the dispatcher delivers one signal at a time: device-list handling
Next ==
    \/ \E users \in SUBSET Users, include_untracked \in BOOLEAN :
          FetchKeys(1, users, include_untracked)
    \/ \E changed \in SUBSET Users : HandleDeviceLists(1, changed)
    \/ FetchQuery(1)
    \/ \E user_id \in Users : FetchNextUser(1, user_id)
    \/ \E device_id \in Devices : \E keys \in ReportedKeys(device_id) :
          FetchValidateDevice(1, device_id, keys)
    \/ FetchPutDevices(1)
    \/ OnDevicesChanged(1)
    \/ FetchReturn(1)
    \/ TaskEnd(1)
    \/ \E room_id \in Rooms : CreateOutboundSession(room_id)

Spec == Init /\ [][Next]_vars

\* key sharing, with the signals' handlers running concurrently
KeysInit == \E m \in OtkMaxima : Start(m, {})

KeysNext ==
    \E t \in Tasks :
        \/ \E c \in 0..MaxOtkCount : HandleOtkCount(t, c)
        \/ \E c \in 0..MaxOtkCount : ShareKeys(t, c)
        \/ UploadKeysDone(t)
        \/ UploadKeysFailed(t)
        \/ TaskEnd(t)

KeysSpec == KeysInit /\ [][KeysNext]_vars

\* membership events, delivered one at a time
MemberNext ==
    \/ \E room_id \in Rooms, prev \in Memberships \cup {Absent}, cur \in Memberships :
          HandleMemberEvent(1, room_id, prev, cur)
    \/ TaskEnd(1)
    \/ \E room_id \in Rooms : CreateOutboundSession(room_id)

MemberSpec == Init /\ [][MemberNext]_vars

\* two device-list fetches running concurrently, over well-formed responses
\* without display names about the users in ConcUsers
ConcUsers == {"u1"}

FetchConcNext ==
    \E t \in Tasks :
        \/ \E users \in SUBSET ConcUsers : FetchKeys(t, users, TRUE)
        \/ FetchQuery(t)
        \/ \E user_id \in ConcUsers : FetchNextUser(t, user_id)
        \/ \E device_id \in Devices :
             \E keys \in {k \in GoodKeys(tasks[t].user_id, device_id) :
                                k.name = Absent} :
                FetchValidateDevice(t, device_id, keys)
        \/ FetchPutDevices(t)
        \/ OnDevicesChanged(t)
        \/ FetchReturn(t)
        \/ TaskEnd(t)

FetchConcSpec == Init /\ [][FetchConcNext]_vars

\* successive fetches of one user's devices, one at a time, over well-formed
\* responses, with the history of stored signing keys kept
PinInit == Start(4, ConcUsers \X Devices)

PinNext ==
    \/ \E users \in SUBSET ConcUsers : FetchKeys(1, users, TRUE)
    \/ FetchQuery(1)
    \/ \E user_id \in ConcUsers : FetchNextUser(1, user_id)
    \/ \E device_id \in Devices :
         \E keys \in {k \in GoodKeys(tasks[1].user_id, device_id) : k.name = Absent} :
            FetchValidateDevice(1, device_id, keys)
    \/ FetchPutDevices(1)
    \/ OnDevicesChanged(1)
    \/ FetchReturn(1)
    \/ TaskEnd(1)

PinSpec == PinInit /\ [][PinNext]_vars

\* the validator applied to every bundle, under every requested user and
\* device id, with no stored record or with one of either signing key
StoredRecords(user_id, device_id) ==
    {<<>>} \cup {<<DeviceIdentity(user_id, device_id, c, k, "unset", device_id, FALSE)>> :
                    c \in IdentityKeys, k \in SigningKeys}

ValidatorNext ==
    \/ \E user_id \in Users, device_id \in Devices, device_keys \in DeviceKeys :
          \E existing \in StoredRecords(user_id, device_id) :
             ValidateDeviceCall(1, user_id, device_id, device_keys, existing)
    \/ TaskEnd(1)

ValidatorSpec == Init /\ [][ValidatorNext]_vars

\* fetches of one user's devices over well-formed responses, between which the
\* application changes the trust state and the deleted flag of stored devices
TrustNext ==
    \/ \E users \in SUBSET ConcUsers : FetchKeys(1, users, TRUE)
    \/ FetchQuery(1)
    \/ \E user_id \in ConcUsers : FetchNextUser(1, user_id)
    \/ \E device_id \in Devices :
         \E keys \in {k \in GoodKeys(tasks[1].user_id, device_id) : k.name = Absent} :
            FetchValidateDevice(1, device_id, keys)
    \/ FetchPutDevices(1)
    \/ OnDevicesChanged(1)
    \/ FetchReturn(1)
    \/ TaskEnd(1)
    \/ \E user_id \in ConcUsers, device_id \in Devices :
         \E trust \in TrustStates, deleted \in BOOLEAN :
            SetDeviceState(user_id, device_id, trust, deleted)

TrustSpec == Init /\ [][TrustNext]_vars

\* encrypted to-device events, handled one at a time
ToDeviceNext ==
    \/ HandleToDeviceEvent(1)
    \/ DecryptOlmEventFailed(1)
    \/ \E decrypted_evt \in DecryptedOlmEvents : DecryptOlmEventDone(1, decrypted_evt)
    \/ ReceiveRoomKeyCreate(1)
    \/ TaskEnd(1)

ToDeviceSpec == Init /\ [][ToDeviceNext]_vars

\* fetches whose key query reports some origins as failed; the response lists
\* no user of a failed origin and is otherwise well-formed
FailNext ==
    \/ \E users \in SUBSET Users : FetchKeys(1, users, TRUE)
    \/ \E failures \in SUBSET Servers : FetchQueryFailures(1, failures)
    \/ \E user_id \in {u \in tasks[1].users : ServerOf(u) \notin tasks[1].failures} :
          FetchNextUser(1, user_id)
    \/ \E device_id \in Devices :
         \E keys \in {k \in GoodKeys(tasks[1].user_id, device_id) : k.name = Absent} :
            FetchValidateDevice(1, device_id, keys)
    \/ FetchPutDevices(1)
    \/ OnDevicesChanged(1)
    \/ FetchReturn(1)
    \/ TaskEnd(1)
    \/ \E room_id \in Rooms : CreateOutboundSession(room_id)

FailSpec == Init /\ [][FailNext]_vars

\* ------------------------------------------------------------------ claims
ValidationFailed(t) == tasks[t].pc = "failed" /\ tasks[t].error \in ValidationErrors

\* C1: once (user, device) was stored with signing key K, it is never stored
\* with another signing key, also when the device was missing from a
\* response in between.
C1_SigningKeyPinnedForever ==
    \A p \in DOMAIN ever_stored : Cardinality(ever_stored[p]) <= 1

\* C2: a device that fails validation does not end the operation: the call
\* completes normally and the failing device is in neither the stored nor the
\* returned map.
C2_InvalidDeviceDropped ==
    \A t \in Tasks :
        tasks[t].error \in ValidationErrors =>
            /\ tasks[t].pc # "failed"
            /\ tasks[t].bad_device \notin DOMAIN devstore[tasks[t].user_id]

\* C3: over all interleavings of share_keys, at most one successful
\* upload_keys call carries the device identity keys.
C3_IdentityKeysUploadedOnce == uploads <= 1

\* C4: between a fetch's get_devices(U) and its put_devices(U, ...) no other
\* put_devices(U, ...) takes effect: the map read is still the map stored.
C4_ReadThenWriteSerialized ==
    \A t \in Tasks :
        tasks[t].pc = "devices" =>
            devstore[tasks[t].user_id] = tasks[t].existing_devices

\* the case of C5: the rejected bundle's signing key differs from the one stored
\* for that device
MismatchCase(t) ==
    /\ ValidationFailed(t)
    /\ tasks[t].bad_device \in DOMAIN devstore[tasks[t].user_id]
    /\ devstore[tasks[t].user_id][tasks[t].bad_device].signing_key
         # tasks[t].bad_keys.ed25519

PassesChecks1to4(t) ==
    /\ tasks[t].bad_keys.user_id = tasks[t].user_id
    /\ tasks[t].bad_keys.device_id = tasks[t].bad_device
    /\ tasks[t].bad_keys.ed25519 # Absent
    /\ tasks[t].bad_keys.curve25519 # Absent

\* C5 as stated: a bundle for a stored device whose signing key differs from
\* the stored one is always rejected with the signing-key-mismatch reason.
C5_MismatchReasonAlways ==
    \A t \in Tasks : MismatchCase(t) => tasks[t].error = ErrPinned

\* C5 as amended: such a bundle is never accepted; it is rejected with the
\* signing-key-mismatch reason whenever it passes the four earlier checks
\* (ids, key presence), and otherwise with an earlier check's reason; the
\* stored record of the device stays as it was.
C5_MismatchRejected ==
    /\ [](\A t \in Tasks :
            /\ MismatchCase(t) /\ PassesChecks1to4(t) => tasks[t].error = ErrPinned
            /\ MismatchCase(t) => tasks[t].error # ErrSignature
            /\ tasks[t].pc = "devices" =>
                 /\ tasks[t].existing_devices = devstore[tasks[t].user_id]
                 /\ \A d \in DOMAIN tasks[t].new_devices \cap
                              DOMAIN tasks[t].existing_devices :
                       tasks[t].new_devices[d].signing_key
                         = tasks[t].existing_devices[d].signing_key)
    /\ [][\A t \in Tasks :
            tasks[t].pc = "devices" /\ tasks'[t].pc = "failed"
               => devstore' = devstore]_vars
    /\ [][\A u \in Users : \A d \in DOMAIN devstore[u] \cap DOMAIN devstore'[u] :
            devstore'[u][d].signing_key = devstore[u][d].signing_key]_vars

C5_Witness ==
    \E t \in Tasks : MismatchCase(t) /\ tasks[t].error = ErrPinned

\* C6: the shared flag is set and the account saved only by a successful
\* upload; a failed upload raises, leaves flag, saved account and upload count
\* as they were, and a share_keys started while shared is false uploads the
\* device keys.
C6_SharedOnlyAfterUpload ==
    /\ [](stored_account.present => account.shared /\ uploads >= 1)
    /\ [](account.shared => uploads >= 1)
    /\ [][account' # account \/ stored_account' # stored_account
            => \E t \in Tasks : tasks[t].pc = "upload" /\ tasks'[t].pc = "done"]_vars
    /\ [][\A t \in Tasks :
            tasks[t].pc = "upload" /\ tasks'[t].pc = "failed"
               => /\ tasks'[t].error = "UploadError"
                  /\ UNCHANGED <<account, stored_account, uploads>>]_vars
    /\ [][\A t \in Tasks :
            Idle(t) /\ tasks'[t].op = "share_keys" /\ ~account.shared
               => tasks'[t].pc = "upload" /\ tasks'[t].device_keys]_vars

C6_Witness ==
    \E t \in Tasks :
        /\ tasks[t].pc = "failed" /\ tasks[t].error = "UploadError"
        /\ tasks[t].device_keys
        /\ ~account.shared /\ ~stored_account.present

\* C7: handle_member_event removes the room's outbound session exactly when
\* the room is encrypted, previous (unknown when absent) and new membership
\* differ and the change is none of invite->join, ban->leave, leave->ban;
\* otherwise the session is as it was.
C7_MemberInvalidation ==
    \A t \in Tasks :
        tasks[t].op = "member" /\ tasks[t].pc = "done" =>
            LET e == tasks[t]
                prev == IF e.prev = Absent THEN "unknown" ELSE e.prev
                expected ==
                    /\ e.room_id = "r1"
                    /\ prev # e.cur
                    /\ <<prev, e.cur>> \notin {<<"invite", "join">>, <<"ban", "leave">>,
                                             <<"leave", "ban">>}
            IN  /\ e.removed <=> expected
                /\ e.removed => e.room_id \notin sessions
                /\ ~e.removed => (e.room_id \in sessions <=> e.had_session)

C7_Witness ==
    \E t \in Tasks :
        /\ tasks[t].op = "member" /\ tasks[t].pc = "done"
        /\ tasks[t].room_id = "r1" /\ tasks[t].prev = "join" /\ tasks[t].cur = "leave"
        /\ tasks[t].had_session /\ tasks[t].removed /\ "r1" \notin sessions

\* C8: a user found changed is given to on_devices_changed at once, after
\* the user's new map was written; from then to the return no room shared
\* with the user holds an outbound session, also when a room is invalidated
\* for two users.
C8_ChangedUsersInvalidated ==
    /\ [](\A t \in Tasks : \A u \in tasks[t].notified :
            /\ u \in DOMAIN tasks[t].data
            /\ devstore[u] = tasks[t].data[u]
            /\ FindSharedRooms(u) \cap sessions = {})
    /\ [][\A t \in Tasks :
            tasks[t].pc = "changed"
               => /\ tasks'[t].pc = "loop"
                  /\ tasks[t].user_id \in tasks'[t].notified]_vars

C8_Witness ==
    \E t \in Tasks :
        /\ tasks[t].pc = "done"
        /\ tasks[t].notified = Users
        /\ tasks[t].had_session

\* C9: when the devices of user U have been gone through, U is treated as
\* changed exactly when a reported device was absent from the map read, or
\* the number of validated devices differs from the number read.
C9_ChangedIffNewOrCountDiffers ==
    [][\A t \in Tasks :
         tasks[t].pc = "devices" /\ tasks'[t].pc # "devices" =>
            LET existing == tasks[t].existing_devices
                validated == tasks[t].new_devices
                reported_new ==
                    \/ \E d \in DOMAIN validated : d \notin DOMAIN existing
                    \/ /\ tasks'[t].pc = "failed"
                       /\ tasks'[t].bad_device \notin DOMAIN existing
            IN  tasks'[t].pc = "changed"
                  <=> (reported_new \/ Size(validated) # Size(existing))]_vars

\* C10: a fetch with include_untracked=false whose users are all untracked
\* (or none) returns the empty map at once: no query_keys, no store write, no
\* session removed.
C10_EmptyFilterNoCalls ==
    /\ [](\A t \in Tasks :
            /\ tasks[t].op \in {"fetch", "device_lists"}
            /\ ~tasks[t].include_untracked
            /\ tasks[t].arg_users \cap tracked = {}
            => /\ tasks[t].pc = "done"
               /\ ~tasks[t].queried
               /\ tasks[t].data = EmptyMap
               /\ tasks[t].notified = {})
    /\ [][\A t \in Tasks :
            Idle(t) /\ tasks'[t].op \in {"fetch", "device_lists"}
                    /\ tasks'[t].pc = "done"
               => UNCHANGED <<devstore, tracked, sessions, ever_stored>>]_vars

C10_Witness ==
    \E t \in Tasks :
        /\ tasks[t].op = "fetch" /\ tasks[t].pc = "done"
        /\ ~tasks[t].include_untracked
        /\ tasks[t].arg_users # {} /\ tasks[t].arg_users \cap tracked = {}
        /\ tracked # {} /\ sessions # {}
        /\ tasks[t].data = EmptyMap /\ ~tasks[t].queried

\* C11: a device identity once stored for a user is never removed from that
\* user's stored device map by a fetch: every device id of the map is still in
\* the map after every step.
C11_StoredDeviceNeverRemoved ==
    [][\A user_id \in Users :
         DOMAIN devstore[user_id] \subseteq DOMAIN devstore'[user_id]]_vars

\* a handle_otk_count call has just run in task t; share_keys was invoked by it
\* exactly when the task now waits for upload_keys (below the threshold there is
\* always at least one one-time key to upload)
OtkCountHandled(t) == Idle(t) /\ tasks'[t].op = "otk_count"

ShareKeysInvoked(t) ==
    /\ tasks'[t].pc = "upload"
    /\ tasks'[t].one_time_keys > 0

\* C12: for every maximum M and reported count c, handle_otk_count
\* invokes share_keys(c) if and only if 2*c < M, for odd M as well as even M.
C12_SharesIffTwiceCountBelowMax ==
    [][\A t \in Tasks :
         OtkCountHandled(t) =>
            /\ tasks'[t].current_otk_count \in 0..MaxOtkCount
            /\ ShareKeysInvoked(t)
                 <=> 2 * tasks'[t].current_otk_count < account.max_one_time_keys]_vars

\* C13: share_keys called while the account is already shared, with a count
\* equal to the configured maximum, is a no-op: it returns at once, upload_keys
\* is not awaited, the account is not saved and the account is left as it was.
C13_SharedAtMaxIsNoOp ==
    [][\A t \in Tasks :
         (/\ Idle(t)
          /\ tasks'[t].op = "share_keys"
          /\ account.shared
          /\ tasks'[t].current_otk_count = account.max_one_time_keys)
         => /\ tasks'[t].pc = "done"
            /\ ~tasks'[t].device_keys
            /\ tasks'[t].one_time_keys = 0
            /\ UNCHANGED <<account, stored_account, uploads>>]_vars

\* share_keys has returned without an upload for a shared account at its maximum
C13_Witness ==
    \E t \in Tasks :
        /\ tasks[t].op = "share_keys"
        /\ tasks[t].pc = "done"
        /\ account.shared
        /\ tasks[t].current_otk_count = account.max_one_time_keys
        /\ ~tasks[t].device_keys
        /\ tasks[t].one_time_keys = 0

\* C14: the account's shared flag is monotonic - once true it stays true, in
\* memory and in the saved account, whether uploads succeed or fail - and an
\* upload is given the device identity keys only if shared is false when
\* share_keys builds it.
C14_SharedMonotonic ==
    /\ [][account.shared => account'.shared]_vars
    /\ [][stored_account.shared => stored_account'.shared]_vars
    /\ [][\A t \in Tasks :
            Idle(t) /\ tasks'[t].pc = "upload"
               => (tasks'[t].device_keys <=> ~account.shared)]_vars
    /\ [][\A t \in Tasks :
            tasks[t].pc = "upload" /\ tasks'[t].pc \in {"done", "failed"}
               => /\ tasks'[t].device_keys = tasks[t].device_keys
                  /\ (tasks'[t].pc = "failed" => account' = account)]_vars

\* after the flag was set an upload without device keys is in flight while an
\* earlier upload has failed
C14_Witness ==
    /\ account.shared
    /\ \E t \in Tasks :
          /\ tasks[t].pc = "upload"
          /\ ~tasks[t].device_keys
          /\ tasks[t].one_time_keys > 0
    /\ \E t \in Tasks : tasks[t].pc = "failed"

IsValidated(u, d, device) ==
    /\ device.user_id = u
    /\ device.device_id = d
    /\ device.trust = "unset"
    /\ ~device.deleted

\* C16: when the key query reports failed origins the fetch does not fail on
\* their account (the only failure left is a returned device that does not
\* validate): the query step goes on to the returned users with the queried
\* set as it was,
\* every returned user's validated devices are stored and put in the result,
\* and the users of the failed origins keep their stored maps, are not reported
\* changed and are not in the result.
C16_OriginFailuresTolerated ==
    /\ [](\A t \in Tasks :
            tasks[t].pc = "failed" => tasks[t].error \in ValidationErrors)
    /\ [][\A t \in Tasks :
            tasks[t].pc = "query"
               => /\ tasks'[t].pc = "loop"
                  /\ tasks'[t].users = tasks[t].users
                  /\ tasks'[t].data = EmptyMap
                  /\ UNCHANGED <<devstore, tracked, sessions>>]_vars
    /\ [](\A t \in Tasks : \A u \in DOMAIN tasks[t].data :
            /\ ServerOf(u) \notin tasks[t].failures
            /\ devstore[u] = tasks[t].data[u]
            /\ \A d \in DOMAIN devstore[u] : IsValidated(u, d, devstore[u][d]))
    /\ [][\A t \in Tasks : \A u \in Users :
            ServerOf(u) \in tasks[t].failures
               => /\ devstore'[u] = devstore[u]
                  /\ u \notin tasks'[t].notified
                  /\ u \notin DOMAIN tasks'[t].data]_vars

\* a fetch of both users has returned although origin s1 had failed: u2 was
\* stored and reported changed, u1's stored devices are as they were
C16_Witness ==
    \E t \in Tasks :
        /\ tasks[t].pc = "done"
        /\ tasks[t].failures = {"s1"}
        /\ tasks[t].users = {"u1"}
        /\ DOMAIN tasks[t].data = {"u2"}
        /\ tasks[t].data["u2"] # EmptyMap
        /\ "u2" \in tasks[t].notified
        /\ devstore["u1"] # EmptyMap

\* the six checks of the validator, each stated on its own, for the call kept
\* in task t
ValidatorChecks(t) ==
    LET keys == tasks[t].bad_keys
        existing == Option(tasks[t].existing_devices, tasks[t].bad_device)
    IN  << keys.user_id = tasks[t].user_id,
           keys.device_id = tasks[t].bad_device,
           keys.ed25519 # Absent,
           keys.curve25519 # Absent,
           existing = <<>> \/ existing[1].signing_key = keys.ed25519,
           keys.signature = "valid" >>

ValidatorReasons ==
    <<ErrUserID, ErrDeviceID, ErrSigningKey, ErrIdentityKey, ErrPinned, ErrSignature>>

\* C17: the validator succeeds exactly when all six checks pass; when it
\* fails the reason is that of the first failing check in the order user id,
\* device id, signing key, identity key, pinned signing key, signature; a
\* bundle whose embedded user or device id differs from the requested one
\* fails, and an identity the validator yields carries the bundle's own ids.
C17_ValidatorChecksInOrder ==
    \A t \in Tasks :
        tasks[t].op = "validate" =>
            LET checks == ValidatorChecks(t)
                failing == {i \in 1..6 : ~checks[i]}
            IN  /\ tasks[t].pc \in {"done", "failed"}
                /\ tasks[t].pc = "done" <=> failing = {}
                /\ tasks[t].pc = "failed" =>
                     \E i \in failing :
                        /\ \A j \in failing : i <= j
                        /\ tasks[t].error = ValidatorReasons[i]
                /\ (~checks[1] \/ ~checks[2]) =>
                     /\ tasks[t].pc = "failed"
                     /\ tasks[t].new_devices = EmptyMap
                /\ tasks[t].pc = "done" =>
                     LET device == tasks[t].new_devices[tasks[t].bad_device]
                     IN  /\ device.user_id = tasks[t].bad_keys.user_id
                         /\ device.device_id = tasks[t].bad_keys.device_id
                         /\ device.signing_key = tasks[t].bad_keys.ed25519
                         /\ device.identity_key = tasks[t].bad_keys.curve25519

\* a bundle failing several checks at once (both ids, pin and signature) has
\* been rejected with the user-id reason
C17_Witness ==
    \E t \in Tasks :
        /\ tasks[t].op = "validate"
        /\ tasks[t].pc = "failed"
        /\ LET checks == ValidatorChecks(t)
           IN  ~checks[1] /\ ~checks[2] /\ checks[3] /\ checks[4] /\ ~checks[5]
                 /\ ~checks[6]
        /\ tasks[t].error = ErrUserID

\* C18: handle_device_lists fetches exactly the changed users, with
\* include_untracked=false: the users queried are the tracked ones among them;
\* with an empty changed set, or with untracked users only, it returns without
\* query_keys, store write or session removal; and whatever the response lists,
\* only queried users are gone through and stored.
C18_DeviceListsFetchTrackedOnly ==
    /\ [](\A t \in Tasks :
            tasks[t].op = "device_lists" =>
               /\ ~tasks[t].include_untracked
               /\ tasks[t].pc \in {"query", "done"}
               /\ tasks[t].pc = "query" =>
                    /\ tasks[t].users = tasks[t].arg_users \cap tracked
                    /\ tasks[t].users # {}
               /\ tasks[t].pc = "done" =>
                    /\ tasks[t].arg_users \cap tracked = {}
                    /\ ~tasks[t].queried
                    /\ tasks[t].data = EmptyMap)
    /\ [][\A t \in Tasks :
            Idle(t) /\ tasks'[t].op = "device_lists" /\ tasks'[t].pc = "done"
               => UNCHANGED <<devstore, tracked, sessions>>]_vars
    /\ [][\A t \in Tasks :
            tasks[t].pc \in {"query", "loop", "devices", "changed"}
               => /\ tasks'[t].users \subseteq tasks[t].users
                  /\ (tasks'[t].pc = "devices" =>
                        tasks'[t].user_id \in tasks[t].users \cup {tasks[t].user_id})]_vars
    /\ [][\A u \in Users :
            devstore'[u] # devstore[u] \/ u \in tracked' \ tracked
               => \E t \in Tasks : tasks[t].pc = "devices" /\ tasks[t].user_id = u]_vars

\* a delta naming a tracked and an untracked user is about to query the
\* tracked one alone
C18_Witness ==
    \E t \in Tasks :
        /\ tasks[t].op = "device_lists"
        /\ tasks[t].pc = "query"
        /\ tasks[t].arg_users = {"u1", "u2"}
        /\ tasks[t].users = {"u1"}
        /\ "u2" \notin tracked

\* a delta naming only an untracked user has been dropped
C18_WitnessUntrackedOnly ==
    \E t \in Tasks :
        /\ tasks[t].op = "device_lists"
        /\ tasks[t].pc = "done"
        /\ tasks[t].arg_users = {"u2"}
        /\ tracked = {"u1"}

\* the key an inbound group session made from evt is stored under
InboundKey(evt) == <<evt.sender_key, evt.room_id, evt.session_id>>

\* decryption gave a room-key event of the megolm algorithm with a fingerprint
RoomKeyAccepted(evt) ==
    /\ evt.type = RoomKey
    /\ evt.algorithm = MegolmV1
    /\ evt.ed25519 # Absent

\* C19: handle_to_device_event creates an inbound group session, stored under
\* (sender key, room id, session id), exactly when decryption succeeds with a
\* room-key event whose algorithm is megolm-v1 and whose envelope carries an
\* ed25519 fingerprint; a decryption failure ends the handler with that error
\* before any intake; in every other case the handler returns without error
\* and the inbound sessions are as they were.
C19_RoomKeyIntake ==
    /\ [](\A t \in Tasks :
            tasks[t].op = "to_device" =>
               /\ tasks[t].pc \in {"decrypt", "create", "done", "failed"}
               /\ tasks[t].pc = "failed" =>
                    /\ tasks[t].error = "DecryptionError"
                    /\ tasks[t].evt = NoEvent
                    /\ ~tasks[t].created
               /\ tasks[t].pc = "create" => RoomKeyAccepted(tasks[t].evt)
               /\ tasks[t].pc = "done" =>
                    /\ tasks[t].evt \in DecryptedOlmEvents
                    /\ tasks[t].created <=> RoomKeyAccepted(tasks[t].evt)
                    /\ tasks[t].created =>
                         /\ InboundKey(tasks[t].evt) \in DOMAIN inbound
                         /\ inbound[InboundKey(tasks[t].evt)] =
                              [signing_key |-> tasks[t].evt.ed25519,
                               session_key |-> tasks[t].evt.session_key])
    /\ [][\A t \in Tasks :
            tasks[t].pc = "decrypt" /\ tasks'[t].pc \in {"failed", "done"}
               => inbound' = inbound]_vars
    /\ [][inbound' # inbound =>
            \E t \in Tasks :
               /\ tasks[t].pc = "create"
               /\ tasks'[t].pc = "done"
               /\ \A k \in DOMAIN inbound \ {InboundKey(tasks[t].evt)} :
                     k \in DOMAIN inbound' /\ inbound'[k] = inbound[k]]_vars

\* a room-key event has created a session in one room, and the handler has
\* just returned from a megolm room-key event without a fingerprint, leaving
\* the other room without a session
C19_Witness ==
    \E t \in Tasks :
        /\ tasks[t].op = "to_device"
        /\ tasks[t].pc = "done"
        /\ tasks[t].evt.type = RoomKey
        /\ tasks[t].evt.algorithm = MegolmV1
        /\ tasks[t].evt.ed25519 = Absent
        /\ ~tasks[t].created
        /\ InboundKey(tasks[t].evt) \notin DOMAIN inbound
        /\ inbound # EmptyMap

\* C20: every device record a fetch writes to the store has trust state unset
\* and deleted false, whatever the record stored before for that device said:
\* a verified, blacklisted or deleted device that is validated again is stored
\* as unset and not deleted.
C20_WrittenRecordsUnset ==
    /\ [](\A t \in Tasks : \A d \in DOMAIN tasks[t].new_devices :
            tasks[t].pc \in {"devices", "changed", "loop"} =>
               /\ tasks[t].new_devices[d].trust = "unset"
               /\ ~tasks[t].new_devices[d].deleted)
    /\ [][\A t \in Tasks :
            tasks[t].pc = "devices" /\ tasks'[t].pc \in {"changed", "loop"}
               => /\ devstore'[tasks[t].user_id] = tasks[t].new_devices
                  /\ \A d \in DOMAIN devstore'[tasks[t].user_id] :
                        /\ devstore'[tasks[t].user_id][d].trust = "unset"
                        /\ ~devstore'[tasks[t].user_id][d].deleted]_vars

\* the devices of u1 have just been stored again: d1 was blacklisted and
\* flagged deleted, d2 was verified, and both are now unset and not deleted
C20_Witness ==
    \E t \in Tasks :
        /\ tasks[t].pc \in {"changed", "loop"}
        /\ tasks[t].user_id = "u1"
        /\ DOMAIN tasks[t].existing_devices = {"d1", "d2"}
        /\ tasks[t].existing_devices["d1"].trust = "blacklisted"
        /\ tasks[t].existing_devices["d1"].deleted
        /\ tasks[t].existing_devices["d2"].trust = "verified"
        /\ DOMAIN devstore["u1"] = {"d1", "d2"}
        /\ \A d \in {"d1", "d2"} :
              devstore["u1"][d].trust = "unset" /\ ~devstore["u1"][d].deleted

====
